---- MODULE Spec2Model ----
(***************************************************************************)
(* Cloudflare tunnel configuration manager                                 *)
(* (cloudflare/tunnels/update_config.py): the reconciliation of the local  *)
(* route list against the remote tunnel configuration and the zone's DNS   *)
(* records, as a state machine of one or two runs of main().               *)
(* Port scanner (portwatcher/scanner/tasks.py): one call of                *)
(* PortScanner.scan_host, modelled in the last section.                    *)
(***************************************************************************)
EXTENDS Integers, Sequences, FiniteSets, TLC

VARIABLES
    config_file,      \* the local config.yml: [kind, data]
    tunnel,           \* remote tunnel configuration: [kind, ingress]
    zone,             \* remote DNS records of the zone (a set of records)
    fault,            \* how the remote misbehaves in this behaviour
    dry_run,          \* args.dry_run
    manage_dns,       \* TunnelConfigManager.manage_dns (not args.no_dns)
    pc,               \* position of the run
    local_routes,     \* sync: local_routes
    remote_routes,    \* sync: remote_routes
    actions,          \* sync: actions (RouteActions)
    existing_records, \* sync_dns_records: existing_records (set, keyed by name)
    dns_create,       \* sync_dns_records: dns_create
    dns_update,       \* sync_dns_records: dns_update
    dns_delete,       \* sync_dns_records: dns_delete
    dns_i,            \* index of the running DNS apply loop
    calls,            \* the remote calls of the run, in order
    route_report,     \* what the run printed as route actions
    dns_report,       \* what the run printed as DNS actions
    warnings,         \* warnings printed by the run
    exit_code,        \* process exit status ("running", "0", "1")
    start,            \* remote state at the start of the run
    prev,             \* summary of the previous run (if any)
    eq_result,        \* results of TunnelRoute.__eq__ both ways (equality model)
    env,              \* os.environ: the identifiers that are set and non-empty
    host,             \* scan_host: the Host object
    scan_result,      \* scan_host: the ScanResult object
    db,               \* portwatcher database rows: [host, scan, ports]
    nm,               \* what nmap does in this scan: [kind, ports, fail_at]
    clock             \* timezone.now()

vars == <<config_file, tunnel, zone, fault, dry_run, manage_dns, pc,
          local_routes, remote_routes, actions, existing_records,
          dns_create, dns_update, dns_delete, dns_i, calls, route_report,
          dns_report, warnings, exit_code, start, prev, eq_result, env,
          host, scan_result, db, nm, clock>>

\* the state of the port scanner
scan_vars == <<host, scan_result, db, nm, clock>>

(***************************************************************************)
(* Bounds                                                                  *)
(***************************************************************************)
\* most ports nmap reports for the scanned host
MaxPorts == 2
\* longest route list (desired or remote) in the reconciliation-only model
MaxCmpLen == 2
\* longest desired route list in the whole-run model
MaxRoutes == 2
\* largest number of DNS records in the zone at the start
MaxZone == 2
\* longest remote route list at the start of the whole-run model
MaxRemote == 1

(***************************************************************************)
(* Helpers on sequences and sets                                           *)
(***************************************************************************)
Range(s) == {s[i] : i \in DOMAIN s}

SeqsUpTo(S, n) == UNION {[1..k -> S] : k \in 0..n}

\* the sequences over S of length at most n without a repeated entry
DistinctSeqsUpTo(S, n) ==
    {s \in SeqsUpTo(S, n) : \A i, j \in DOMAIN s : i # j => s[i] # s[j]}

\* every order in which a Python set holding S may be iterated
Orderings(S) ==
    {f \in [1..Cardinality(S) -> S] : \A x \in S : \E i \in DOMAIN f : f[i] = x}

(***************************************************************************)
(* Data model: OriginRequest, TunnelRoute                                  *)
(***************************************************************************)
\* originRequest = None
NoOrigin == [present |-> FALSE, noTLSVerify |-> "None", extra |-> <<>>]

\* OriginRequest(noTLSVerify=v, **extra); extra is the dict of the other
\* keys, a sequence of <<key, value>> pairs in insertion order
OriginRequest(v, extra) == [present |-> TRUE, noTLSVerify |-> v, extra |-> extra]

TunnelRoute(h, s, o) == [hostname |-> h, service |-> s, originRequest |-> o]

\* a dict comparison that is sensitive to insertion order
DictEq_Ordered(d1, d2) == d1 = d2

\* dict == dict: same keys with the same values, whatever the order
DictEq(d1, d2) == Range(d1) = Range(d2)

\* pydantic BaseModel.__eq__ on Optional[OriginRequest]
OriginRequest_eq(x, y) ==
    /\ x.present = y.present
    /\ x.present => /\ x.noTLSVerify = y.noTLSVerify
                    /\ DictEq(x.extra, y.extra)

\* a comparison that forgets the origin options
TunnelRoute_eq_NoOrigin(a, b) ==
    /\ a.hostname = b.hostname
    /\ a.service = b.service

TunnelRoute_eq(a, b) ==
    /\ a.hostname = b.hostname
    /\ a.service = b.service
    /\ OriginRequest_eq(a.originRequest, b.originRequest)

\* originRequest.model_dump(by_alias=True, exclude_none=True)
model_dump(o) ==
    (IF o.noTLSVerify # "None" THEN << <<"noTLSVerify", o.noTLSVerify>> >> ELSE <<>>)
    \o SelectSeq(o.extra, LAMBDA p : p[2] # "None")

\* an ingress rule of the remote document
Rule(hasH, h, s, hasO, o) ==
    [hasHostname |-> hasH, hostname |-> h, service |-> s,
     hasOrigin |-> hasO, origin |-> o]

to_dict(route) ==
    Rule(TRUE, route.hostname, route.service,
         route.originRequest.present,
         IF route.originRequest.present THEN model_dump(route.originRequest) ELSE <<>>)

\* OriginRequest(**d)
ParseOrigin(d) ==
    LET tls == {i \in DOMAIN d : d[i][1] = "noTLSVerify"}
    IN OriginRequest(IF tls = {} THEN "None" ELSE d[CHOOSE i \in tls : TRUE][2],
                     SelectSeq(d, LAMBDA p : p[1] # "noTLSVerify"))

\* TunnelRoute(**rule)
FromRule(rule) ==
    TunnelRoute(rule.hostname, rule.service,
                IF rule.hasOrigin THEN ParseOrigin(rule.origin) ELSE NoOrigin)

CatchAll == Rule(FALSE, "", "http_status:404", FALSE, <<>>)

\* a document of the routes alone, without the catch-all rule
build_cloudflare_config_NoCatchAll(routes) ==
    [i \in 1..Len(routes) |-> to_dict(routes[i])]

build_cloudflare_config(routes) ==
    [i \in 1..Len(routes) |-> to_dict(routes[i])] \o <<CatchAll>>

\* the loop of get_cloudflare_routes over the ingress rules
ParseIngress(ingress) ==
    LET kept == SelectSeq(ingress, LAMBDA r : r.hasHostname)
    IN [i \in 1..Len(kept) |-> FromRule(kept[i])]

(***************************************************************************)
(* compare_routes                                                          *)
(***************************************************************************)
Hostnames(routes) == {routes[i].hostname : i \in DOMAIN routes}

\* {r.hostname: r for r in routes}[h]: the last entry of that hostname
DictGet(routes, h) ==
    routes[CHOOSE i \in DOMAIN routes :
              /\ routes[i].hostname = h
              /\ \A j \in DOMAIN routes : j > i => routes[j].hostname # h]

RouteActions(c, u, d) == [create |-> c, update |-> u, delete |-> d]

has_changes(a) == a.create # <<>> \/ a.update # <<>> \/ a.delete # <<>>

\* The results compare_routes may return: each loop iterates a Python set,
\* whose order is not fixed.
\* a comparison that takes every desired hostname as changed
compare_routes_UpdateAll(local, remote) ==
    LET lh == Hostnames(local)
        rh == Hostnames(remote)
    IN {RouteActions([i \in DOMAIN co |-> DictGet(local, co[i])],
                     [i \in DOMAIN uo |-> DictGet(local, uo[i])],
                     [i \in DOMAIN do |-> DictGet(remote, do[i])]) :
           co \in Orderings(lh \ rh), uo \in Orderings(lh),
           do \in Orderings(rh \ lh)}

compare_routes(local, remote) ==
    LET lh == Hostnames(local)
        rh == Hostnames(remote)
        changed == {h \in lh \cap rh :
                       ~TunnelRoute_eq(DictGet(local, h), DictGet(remote, h))}
    IN {RouteActions([i \in DOMAIN co |-> DictGet(local, co[i])],
                     [i \in DOMAIN uo |-> DictGet(local, uo[i])],
                     [i \in DOMAIN do |-> DictGet(remote, do[i])]) :
           co \in Orderings(lh \ rh), uo \in Orderings(changed),
           do \in Orderings(rh \ lh)}

(***************************************************************************)
(* DNS records                                                             *)
(***************************************************************************)
\* CLOUDFLARE_TUNNEL_ID of the run
TunnelId == "T1"

\* A name or target is a sequence of labels: "T1.cfargotunnel.com" is
\* <<"T1", "cfargotunnel", "com">>.
tunnel_domain == <<TunnelId, "cfargotunnel", "com">>

\* content.endswith(".cfargotunnel.com")
EndsWithTunnelSuffix(content) ==
    /\ Len(content) > 2
    /\ SubSeq(content, Len(content) - 1, Len(content)) = <<"cfargotunnel", "com">>

DNSRecord(id, type, name, content, proxied, ttl) ==
    [id |-> id, type |-> type, name |-> name, content |-> content,
     proxied |-> proxied, ttl |-> ttl]

\* a filter that forgets the record type
IsManaged_AnyType(r) == EndsWithTunnelSuffix(r.content)

\* the filter of get_existing_dns_records
IsManaged(r) == r.type = "CNAME" /\ EndsWithTunnelSuffix(r.content)

\* the dict built by get_existing_dns_records from the listed records
\* (names are unique among the CNAME records of a zone)
ManagedRecords(result) == {r \in result : IsManaged(r)}

RecordNames(records) == {r.name : r \in records}

RecordOf(records, name) == CHOOSE r \in records : r.name = name

\* the record synthesized for a create or an update call
\* a desired record that is not proxied
NewRecord_NotProxied(hostname) ==
    DNSRecord("", "CNAME", hostname, tunnel_domain, FALSE, 1)

NewRecord(hostname) == DNSRecord("", "CNAME", hostname, tunnel_domain, TRUE, 1)

NoRecord == DNSRecord("", "", "", <<>>, FALSE, 0)

\* a comparison that accepts any tunnel target
NeedsUpdate_SuffixOnly(records, hostname) ==
    ~EndsWithTunnelSuffix(RecordOf(records, hostname).content)

\* existing_records[hostname].content != self.api.tunnel_domain
NeedsUpdate(records, hostname) == RecordOf(records, hostname).content # tunnel_domain

\* The three DNS lists sync_dns_records may compute (set iteration order).
DnsPlans(routes, records) ==
    LET req == Hostnames(routes)
        ex == RecordNames(records)
    IN {[create |-> c, update |-> u, delete |-> d] :
           c \in Orderings(req \ ex),
           u \in Orderings({h \in req \cap ex : NeedsUpdate(records, h)}),
           d \in Orderings(ex \ req)}

\* apply loops that delete first
DnsWork_DeletesFirst(plan) ==
    [i \in DOMAIN plan.delete |-> [kind |-> "delete", hostname |-> plan.delete[i]]]
    \o [i \in DOMAIN plan.create |-> [kind |-> "create", hostname |-> plan.create[i]]]
    \o [i \in DOMAIN plan.update |-> [kind |-> "update", hostname |-> plan.update[i]]]

\* the apply loops of sync_dns_records, flattened: creates, updates, deletes
DnsWork(plan) ==
    [i \in DOMAIN plan.create |-> [kind |-> "create", hostname |-> plan.create[i]]]
    \o [i \in DOMAIN plan.update |-> [kind |-> "update", hostname |-> plan.update[i]]]
    \o [i \in DOMAIN plan.delete |-> [kind |-> "delete", hostname |-> plan.delete[i]]]

(***************************************************************************)
(* Remote responses                                                        *)
(***************************************************************************)
\* requests.Response.__bool__ is Response.ok: the status is below 400
ResponseBool(status) == status < 400

\* status of GET .../configurations
TunnelGetStatus(t, f) ==
    IF f = "routes_5xx" THEN 500
    ELSE IF t.kind = "not_found" THEN 404
    ELSE 200

\* a get_cloudflare_routes that takes every failed fetch as "no routes"
get_cloudflare_routes_Swallow(status, t) ==
    IF status >= 400 \/ t.kind # "config"
    THEN [raised |-> FALSE, warned |-> TRUE, routes |-> <<>>]
    ELSE [raised |-> FALSE, warned |-> FALSE, routes |-> ParseIngress(t.ingress)]

\* get_cloudflare_routes on a response of that status:
\* [raised, warned, routes]
get_cloudflare_routes(status, t) ==
    IF status >= 400
    THEN \* raise_for_status() raised HTTPError e, e.response is the response
         IF ResponseBool(status) /\ status = 404
         THEN [raised |-> FALSE, warned |-> TRUE, routes |-> <<>>]
         ELSE [raised |-> TRUE, warned |-> FALSE, routes |-> <<>>]
    ELSE IF t.kind # "config"
         THEN [raised |-> FALSE, warned |-> TRUE, routes |-> <<>>]
         ELSE [raised |-> FALSE, warned |-> FALSE, routes |-> ParseIngress(t.ingress)]

\* get_existing_dns_records: [raised, warned, records]
\* f = "dns_fetch_http": the list call answers an HTTP error status;
\* f = "dns_fetch_conn": the list call fails below HTTP (ConnectionError)
get_existing_dns_records(z, f) ==
    IF f = "dns_fetch_http"
    THEN [raised |-> FALSE, warned |-> TRUE, records |-> {}]
    ELSE IF f = "dns_fetch_conn"
    THEN [raised |-> TRUE, warned |-> FALSE, records |-> {}]
    ELSE [raised |-> FALSE, warned |-> FALSE, records |-> ManagedRecords(z)]

(***************************************************************************)
(* Events of a run: remote calls and reports, in order                     *)
(***************************************************************************)
Event(op, id, rec, doc) == [op |-> op, id |-> id, rec |-> rec, doc |-> doc]

MutatingOps == {"put_tunnel", "create_dns", "update_dns", "delete_dns"}

NoActions == RouteActions(<<>>, <<>>, <<>>)
NoReport == [done |-> FALSE, create |-> {}, update |-> {}, delete |-> {}]
Report(a) ==
    [done |-> TRUE, create |-> Range(a.create), update |-> Range(a.update),
     delete |-> Range(a.delete)]
NoEq == [done |-> FALSE, ab |-> FALSE, ba |-> FALSE]
NoPrev ==
    [valid |-> FALSE, dry_run |-> FALSE, manage_dns |-> FALSE,
     start |-> [tunnel |-> [kind |-> "null_result", ingress |-> <<>>], zone |-> {}],
     route_report |-> NoReport, dns_report |-> NoReport,
     mutated |-> FALSE, exit_code |-> "0"]

(***************************************************************************)
(* Inputs of the whole-run model                                           *)
(***************************************************************************)
HostA == "a.example.com"
HostB == "b.example.com"
HostC == "c.example.com"
HostM == "mail.example.com"

\* routes a config.yml may hold
DesiredRoutes ==
    {TunnelRoute(HostA, "http://10.0.0.1:8080", NoOrigin),
     TunnelRoute(HostA, "http://10.0.0.1:9090", NoOrigin),
     TunnelRoute(HostB, "http://10.0.0.2:80",
                 OriginRequest("None", << <<"httpHostHeader", "None">> >>))}

\* routes the remote configuration may hold at the start
RemoteRoutes ==
    {TunnelRoute(HostA, "http://10.0.0.1:8080", NoOrigin),
     TunnelRoute(HostC, "http://10.0.0.3:80", NoOrigin)}

\* what makes load_local_config raise: no file (FileNotFoundError), text
\* that is no YAML (yaml.YAMLError), a document that is no list (ValueError),
\* an item that is no route (pydantic ValidationError)
LoadFailures == {"missing", "invalid_yaml", "not_a_list", "invalid_item"}

ConfigFiles ==
    {[kind |-> "list", data |-> d] : d \in DistinctSeqsUpTo(DesiredRoutes, MaxRoutes)}
    \cup {[kind |-> k, data |-> <<>>] : k \in LoadFailures}

Tunnels ==
    {[kind |-> "not_found", ingress |-> <<>>],
     [kind |-> "null_result", ingress |-> <<>>]}
    \cup {[kind |-> "config", ingress |-> build_cloudflare_config(r)] :
             r \in DistinctSeqsUpTo(RemoteRoutes, MaxRemote)}

\* DNS records the zone may hold at the start
ZoneCandidates ==
    {DNSRecord("id1", "CNAME", HostA, tunnel_domain, TRUE, 1),
     DNSRecord("id2", "CNAME", HostA, <<"T2", "cfargotunnel", "com">>, FALSE, 300),
     DNSRecord("id3", "TXT", HostB, <<"T2", "cfargotunnel", "com">>, FALSE, 300),
     DNSRecord("id4", "CNAME", HostC, <<"T2", "cfargotunnel", "com">>, TRUE, 1),
     DNSRecord("id5", "CNAME", HostM, <<"ext", "example", "net">>, FALSE, 300)}

Zones ==
    {z \in SUBSET ZoneCandidates :
        /\ Cardinality(z) <= MaxZone
        /\ \A r1, r2 \in z : r1.name = r2.name => r1 = r2}

Faults ==
    {"none", "routes_5xx", "route_apply", "dns_fetch_http", "dns_fetch_conn",
     "dns_apply"}

(***************************************************************************)
(* The run: main() -> sync() -> sync_dns_records()                         *)
(***************************************************************************)
\* the identifiers main() reads from the environment
EnvNames ==
    {"CLOUDFLARE_API_TOKEN", "CLOUDFLARE_ACCOUNT_ID", "CLOUDFLARE_TUNNEL_ID",
     "CLOUDFLARE_ZONE_ID"}

\* a main() that asks for the zone identifier only
EnvOK_ZoneOnly(e, dns) == "CLOUDFLARE_ZONE_ID" \in e

\* main(): all([api_token, account_id, tunnel_id]), and zone_id unless --no-dns
EnvOK(e, dns) ==
    /\ {"CLOUDFLARE_API_TOKEN", "CLOUDFLARE_ACCOUNT_ID", "CLOUDFLARE_TUNNEL_ID"}
          \subseteq e
    /\ dns => "CLOUDFLARE_ZONE_ID" \in e

\* a nullable field (DateTimeField, IntegerField): null, or a value
NoTime == [set |-> FALSE, t |-> 0]
Time(t) == [set |-> TRUE, t |-> t]

\* Host (the fields scan_host touches), ScanResult, and the state before a
\* ScanResult exists
Host(status, at) == [last_scan_status |-> status, last_scan_at |-> at]
ScanResult(status, started, completed, msg, duration) ==
    [exists |-> TRUE, status |-> status, started_at |-> started,
     completed_at |-> completed, error_message |-> msg,
     duration_seconds |-> duration]
NoScanResult ==
    [exists |-> FALSE, status |-> "running", started_at |-> NoTime,
     completed_at |-> NoTime, error_message |-> "",
     duration_seconds |-> NoTime]

\* the scanner is not part of a run of main()
NoScanner ==
    /\ host = Host("pending", NoTime)
    /\ scan_result = NoScanResult
    /\ db = [host |-> Host("pending", NoTime), scan |-> NoScanResult, ports |-> <<>>]
    /\ nm = [kind |-> "absent", ports |-> <<>>, fail_at |-> 0]
    /\ clock = 0

RunLocalsReset ==
    /\ local_routes' = <<>>
    /\ remote_routes' = <<>>
    /\ actions' = NoActions
    /\ existing_records' = {}
    /\ dns_create' = <<>>
    /\ dns_update' = <<>>
    /\ dns_delete' = <<>>
    /\ dns_i' = 1
    /\ calls' = <<>>
    /\ route_report' = NoReport
    /\ dns_report' = NoReport
    /\ warnings' = {}

Init ==
    /\ config_file \in ConfigFiles
    /\ tunnel \in Tunnels
    /\ zone \in Zones
    /\ fault \in Faults
    /\ dry_run = FALSE
    /\ manage_dns = TRUE
    /\ pc = "idle"
    /\ local_routes = <<>>
    /\ remote_routes = <<>>
    /\ actions = NoActions
    /\ existing_records = {}
    /\ dns_create = <<>>
    /\ dns_update = <<>>
    /\ dns_delete = <<>>
    /\ dns_i = 1
    /\ calls = <<>>
    /\ route_report = NoReport
    /\ dns_report = NoReport
    /\ warnings = {}
    /\ exit_code = "running"
    /\ start = [tunnel |-> tunnel, zone |-> zone]
    /\ prev = NoPrev
    /\ eq_result = NoEq
    /\ env = EnvNames
    /\ NoScanner

Log(e) == calls' = Append(calls, e)

\* a mutating call is issued, and the remote accepts or rejects it
LogCall(e, rejected) ==
    calls' = IF rejected
             THEN calls \o <<e, Event("rejected", "", NoRecord, <<>>)>>
             ELSE Append(calls, e)

\* sys.exit(code), or main() returning (code "0")
Exit(code) ==
    /\ pc' = "exit"
    /\ exit_code' = code

\* main(): argument parsing and construction of the manager
Main(dry, dns) ==
    /\ pc = "idle"
    /\ dry_run' = dry
    /\ manage_dns' = dns
    /\ IF EnvOK(env, dns)
       THEN pc' = "load" /\ UNCHANGED exit_code
       ELSE Exit("1")
    /\ start' = [tunnel |-> tunnel, zone |-> zone]
    /\ UNCHANGED <<scan_vars, env, eq_result, config_file, tunnel, zone, fault,
                   local_routes, remote_routes, actions, existing_records,
                   dns_create, dns_update, dns_delete, dns_i, calls,
                   route_report, dns_report, warnings, prev>>

\* sync(): load_local_config; a missing file raises FileNotFoundError,
\* which main() turns into exit status 1
LoadLocalConfig ==
    /\ pc = "load"
    /\ IF config_file.kind = "list"
       THEN /\ local_routes' = config_file.data
            /\ pc' = "fetch_routes"
            /\ UNCHANGED exit_code
       ELSE /\ Exit("1")
            /\ UNCHANGED local_routes
    /\ UNCHANGED <<scan_vars, env, eq_result, config_file, tunnel, zone, fault, dry_run, manage_dns,
                   remote_routes, actions, existing_records, dns_create,
                   dns_update, dns_delete, dns_i, calls, route_report,
                   dns_report, warnings, start, prev>>

\* sync(): get_cloudflare_routes; an exception reaches main(), exit status 1
FetchRoutes ==
    /\ pc = "fetch_routes"
    /\ LET got == get_cloudflare_routes(TunnelGetStatus(tunnel, fault), tunnel)
       IN /\ Log(Event("get_tunnel", "", NoRecord, <<>>))
          /\ IF got.raised
             THEN /\ Exit("1")
                  /\ UNCHANGED <<remote_routes, warnings>>
             ELSE /\ remote_routes' = got.routes
                  /\ warnings' = IF got.warned THEN warnings \cup {"no_tunnel_config"}
                                 ELSE warnings
                  /\ pc' = "compare"
                  /\ UNCHANGED exit_code
    /\ UNCHANGED <<scan_vars, env, eq_result, config_file, tunnel, zone, fault, dry_run, manage_dns,
                   local_routes, actions, existing_records, dns_create,
                   dns_update, dns_delete, dns_i, route_report, dns_report,
                   start, prev>>

\* a sync() that applies the routes only when DNS management is enabled
RoutePhaseNext_OnlyWithDns(a, dry) ==
    IF has_changes(a) /\ ~dry /\ manage_dns THEN "apply_routes" ELSE "sync_dns"

\* a sync() that goes on to the DNS phase without applying the routes
RoutePhaseNext_SkipApply(a, dry) == "sync_dns"

\* a sync() that forgets the dry-run flag
RoutePhaseNext_IgnoreDryRun(a, dry) ==
    IF has_changes(a) THEN "apply_routes" ELSE "sync_dns"

\* sync(): what follows the display of the route actions: the apply step
\* when there are changes and the run is not a dry-run, else the DNS phase
RoutePhaseNext(a, dry) ==
    IF has_changes(a) /\ ~dry THEN "apply_routes" ELSE "sync_dns"

\* sync(): compare_routes, the display of the planned actions, and the
\* choice of the next step
CompareRoutes ==
    /\ pc = "compare"
    /\ \E a \in compare_routes(local_routes, remote_routes) :
          /\ actions' = a
          /\ route_report' = Report(a)
          /\ Log(Event("report_routes", "", NoRecord, <<>>))
          /\ pc' = RoutePhaseNext(a, dry_run)
    /\ UNCHANGED <<scan_vars, env, eq_result, config_file, tunnel, zone, fault, dry_run, manage_dns,
                   local_routes, remote_routes, existing_records, dns_create,
                   dns_update, dns_delete, dns_i, dns_report, warnings,
                   exit_code, start, prev>>

\* sync(): build_cloudflare_config and update_tunnel_configuration; an
\* HTTPError ends the process with sys.exit(1)
ApplyRoutes ==
    /\ pc = "apply_routes"
    /\ LET doc == build_cloudflare_config(local_routes)
       IN /\ LogCall(Event("put_tunnel", "", NoRecord, doc), fault = "route_apply")
          /\ IF fault = "route_apply"
             THEN /\ Exit("1")
                  /\ UNCHANGED tunnel
             ELSE /\ tunnel' = [kind |-> "config", ingress |-> doc]
                  /\ pc' = "sync_dns"
                  /\ UNCHANGED exit_code
    /\ UNCHANGED <<scan_vars, env, eq_result, config_file, zone, fault, dry_run, manage_dns, local_routes,
                   remote_routes, actions, existing_records, dns_create,
                   dns_update, dns_delete, dns_i, route_report, dns_report,
                   warnings, start, prev>>

\* sync_dns_records() with manage_dns false: returns at once
SkipDns ==
    /\ pc = "sync_dns"
    /\ ~manage_dns
    /\ Exit("0")
    /\ UNCHANGED <<scan_vars, env, eq_result, config_file, tunnel, zone, fault, dry_run, manage_dns,
                   local_routes, remote_routes, actions, existing_records,
                   dns_create, dns_update, dns_delete, dns_i, calls,
                   route_report, dns_report, warnings, start, prev>>

\* sync_dns_records(): the list call fails with an exception other than
\* HTTPError, which reaches main(): exit status 1
FetchDnsCrash ==
    /\ pc = "sync_dns"
    /\ manage_dns
    /\ get_existing_dns_records(zone, fault).raised
    /\ Log(Event("list_dns", "", NoRecord, <<>>))
    /\ Exit("1")
    /\ UNCHANGED <<scan_vars, env, eq_result, config_file, tunnel, zone, fault, dry_run, manage_dns,
                   local_routes, remote_routes, actions, existing_records,
                   dns_create, dns_update, dns_delete, dns_i, route_report,
                   dns_report, warnings, start, prev>>

\* a sync_dns_records() that does not display the planned DNS actions
DnsPlanEvents_NoReport == <<Event("list_dns", "", NoRecord, <<>>)>>

\* sync_dns_records(): the list call, then the display of the planned actions
DnsPlanEvents ==
    <<Event("list_dns", "", NoRecord, <<>>), Event("report_dns", "", NoRecord, <<>>)>>

\* sync_dns_records(): get_existing_dns_records, the three lists, their
\* display, and the returns before the apply loops
PlanDns ==
    /\ pc = "sync_dns"
    /\ manage_dns
    /\ LET got == get_existing_dns_records(zone, fault)
       IN /\ ~got.raised
          /\ existing_records' = got.records
          /\ warnings' = IF got.warned THEN warnings \cup {"dns_fetch_failed"}
                         ELSE warnings
          /\ \E plan \in DnsPlans(local_routes, got.records) :
                /\ dns_create' = plan.create
                /\ dns_update' = plan.update
                /\ dns_delete' = plan.delete
                /\ dns_report' = Report(plan)
                /\ calls' = calls \o DnsPlanEvents
                /\ IF DnsWork(plan) = <<>> \/ dry_run
                   THEN Exit("0")
                   ELSE pc' = "dns_apply" /\ UNCHANGED exit_code
    /\ dns_i' = 1
    /\ UNCHANGED <<scan_vars, env, eq_result, config_file, tunnel, zone, fault, dry_run, manage_dns,
                   local_routes, remote_routes, actions, route_report, start,
                   prev>>

\* the operation the apply loops of sync_dns_records are at
CurrentPlan == [create |-> dns_create, update |-> dns_update, delete |-> dns_delete]
CurrentWork == DnsWork(CurrentPlan)

\* the end of one iteration of the apply loops: the next record, or the
\* end of sync_dns_records and of main()
AdvanceDns ==
    IF dns_i = Len(CurrentWork)
    THEN /\ Exit("0")
         /\ UNCHANGED dns_i
    ELSE /\ dns_i' = dns_i + 1
         /\ UNCHANGED <<pc, exit_code>>

\* the remote answers a mutating DNS call with an HTTP error status
DnsCallRejected(ok) == fault = "dns_apply" /\ ~ok

\* sync_dns_records(): one iteration of "for hostname in dns_create".
\* The remote refuses a CNAME record whose name is taken in the zone.
DnsCreateRecord ==
    /\ pc = "dns_apply"
    /\ CurrentWork[dns_i].kind = "create"
    /\ LET hostname == CurrentWork[dns_i].hostname
           record == NewRecord(hostname)
       IN \E ok \in BOOLEAN :
             LET rejected == DnsCallRejected(ok) \/ hostname \in RecordNames(zone)
             IN /\ LogCall(Event("create_dns", "", record, <<>>), rejected)
                /\ IF rejected
                   THEN /\ Exit("1")
                        /\ UNCHANGED <<zone, dns_i>>
                   ELSE /\ zone' = zone \cup {[record EXCEPT !.id = hostname]}
                        /\ AdvanceDns
    /\ UNCHANGED <<scan_vars, env, eq_result, config_file, tunnel, fault, dry_run, manage_dns, local_routes,
                   remote_routes, actions, existing_records, dns_create,
                   dns_update, dns_delete, route_report, dns_report, warnings,
                   start, prev>>

\* sync_dns_records(): one iteration of "for hostname in dns_update"
DnsUpdateRecord ==
    /\ pc = "dns_apply"
    /\ CurrentWork[dns_i].kind = "update"
    /\ LET hostname == CurrentWork[dns_i].hostname
           existing == RecordOf(existing_records, hostname)
           record == NewRecord(hostname)
       IN IF existing.id = ""
          THEN /\ AdvanceDns
               /\ UNCHANGED <<zone, calls>>
          ELSE \E ok \in BOOLEAN :
                  /\ LogCall(Event("update_dns", existing.id, record, <<>>),
                             DnsCallRejected(ok))
                  /\ IF DnsCallRejected(ok)
                     THEN /\ Exit("1")
                          /\ UNCHANGED <<zone, dns_i>>
                     ELSE /\ zone' = {IF r.id = existing.id
                                      THEN [record EXCEPT !.id = existing.id]
                                      ELSE r : r \in zone}
                          /\ AdvanceDns
    /\ UNCHANGED <<scan_vars, env, eq_result, config_file, tunnel, fault, dry_run, manage_dns, local_routes,
                   remote_routes, actions, existing_records, dns_create,
                   dns_update, dns_delete, route_report, dns_report, warnings,
                   start, prev>>

\* sync_dns_records(): one iteration of "for hostname in dns_delete"
DnsDeleteRecord ==
    /\ pc = "dns_apply"
    /\ CurrentWork[dns_i].kind = "delete"
    /\ LET hostname == CurrentWork[dns_i].hostname
           existing == RecordOf(existing_records, hostname)
       IN IF existing.id = ""
          THEN /\ AdvanceDns
               /\ UNCHANGED <<zone, calls>>
          ELSE \E ok \in BOOLEAN :
                  /\ LogCall(Event("delete_dns", existing.id, NoRecord, <<>>),
                             DnsCallRejected(ok))
                  /\ IF DnsCallRejected(ok)
                     THEN /\ Exit("1")
                          /\ UNCHANGED <<zone, dns_i>>
                     ELSE /\ zone' = {r \in zone : r.id # existing.id}
                          /\ AdvanceDns
    /\ UNCHANGED <<scan_vars, env, eq_result, config_file, tunnel, fault, dry_run, manage_dns, local_routes,
                   remote_routes, actions, existing_records, dns_create,
                   dns_update, dns_delete, route_report, dns_report, warnings,
                   start, prev>>

Mutated(cs) == \E i \in DOMAIN cs : cs[i].op \in MutatingOps

\* The program is started again, as a real run with the same DNS toggle, on
\* the remote state the first run left; the first run is remembered.
Rerun ==
    /\ pc = "exit"
    /\ ~prev.valid
    /\ prev' = [valid |-> TRUE, dry_run |-> dry_run, manage_dns |-> manage_dns,
                start |-> start, route_report |-> route_report,
                dns_report |-> dns_report, mutated |-> Mutated(calls),
                exit_code |-> exit_code]
    /\ dry_run' = FALSE
    /\ start' = [tunnel |-> tunnel, zone |-> zone]
    /\ RunLocalsReset
    /\ IF EnvOK(env, manage_dns)
       THEN pc' = "load" /\ exit_code' = "running"
       ELSE Exit("1")
    /\ UNCHANGED <<scan_vars, env, eq_result, config_file, tunnel, zone, fault, manage_dns>>

Next ==
    \/ \E dry, dns \in BOOLEAN : Main(dry, dns)
    \/ LoadLocalConfig
    \/ FetchRoutes
    \/ CompareRoutes
    \/ ApplyRoutes
    \/ SkipDns
    \/ FetchDnsCrash
    \/ PlanDns
    \/ DnsCreateRecord
    \/ DnsUpdateRecord
    \/ DnsDeleteRecord
    \/ Rerun

Spec == Init /\ [][Next]_vars

(***************************************************************************)
(* Reconciliation alone: compare_routes, the push of the document built    *)
(* by build_cloudflare_config, the read back by get_cloudflare_routes, and *)
(* compare_routes again.                                                   *)
(***************************************************************************)
CmpRoutes ==
    {TunnelRoute(HostA, "http://10.0.0.1:8080", NoOrigin),
     TunnelRoute(HostA, "http://10.0.0.1:9090", NoOrigin),
     TunnelRoute(HostA, "http://10.0.0.1:8080", OriginRequest("None", <<>>)),
     TunnelRoute(HostA, "http://10.0.0.1:8080", OriginRequest("true", <<>>)),
     TunnelRoute(HostB, "http://10.0.0.2:80",
                 OriginRequest("None", << <<"httpHostHeader", "None">> >>)),
     TunnelRoute(HostB, "http://10.0.0.2:80",
                 OriginRequest("None", << <<"httpHostHeader", "x.internal">> >>)),
     TunnelRoute(HostC, "http://10.0.0.3:80", NoOrigin)}

InitCmp ==
    /\ local_routes \in SeqsUpTo(CmpRoutes, MaxCmpLen)
    /\ remote_routes \in SeqsUpTo(CmpRoutes, MaxCmpLen)
    /\ pc = "cmp"
    /\ config_file = [kind |-> "list", data |-> local_routes]
    /\ tunnel = [kind |-> "null_result", ingress |-> <<>>]
    /\ zone = {}
    /\ fault = "none"
    /\ dry_run = FALSE
    /\ manage_dns = FALSE
    /\ actions = NoActions
    /\ existing_records = {}
    /\ dns_create = <<>>
    /\ dns_update = <<>>
    /\ dns_delete = <<>>
    /\ dns_i = 1
    /\ calls = <<>>
    /\ route_report = NoReport
    /\ dns_report = NoReport
    /\ warnings = {}
    /\ exit_code = "running"
    /\ start = [tunnel |-> tunnel, zone |-> zone]
    /\ prev = NoPrev
    /\ eq_result = NoEq
    /\ env = EnvNames
    /\ NoScanner

CmpFrame ==
    UNCHANGED <<scan_vars, env, eq_result, config_file, zone, fault, dry_run, manage_dns, local_routes,
                existing_records, dns_create, dns_update, dns_delete, dns_i,
                calls, dns_report, warnings, exit_code, start, prev>>

\* compare_routes(local_routes, remote_routes)
CmpCompare ==
    /\ pc = "cmp"
    /\ actions' \in compare_routes(local_routes, remote_routes)
    /\ pc' = "cmp_apply"
    /\ UNCHANGED <<tunnel, remote_routes, route_report>>
    /\ CmpFrame

\* what sync does with the actions: with changes, the document of the
\* local routes replaces the remote one, and is read back
CmpApply ==
    /\ pc = "cmp_apply"
    /\ route_report' = Report(actions)
    /\ IF has_changes(actions)
       THEN /\ tunnel' = [kind |-> "config",
                          ingress |-> build_cloudflare_config(local_routes)]
            /\ remote_routes' = ParseIngress(tunnel'.ingress)
       ELSE UNCHANGED <<tunnel, remote_routes>>
    /\ pc' = "cmp_again"
    /\ UNCHANGED actions
    /\ CmpFrame

\* compare_routes(local_routes, remote routes read back)
CmpRecompare ==
    /\ pc = "cmp_again"
    /\ actions' \in compare_routes(local_routes, remote_routes)
    /\ pc' = "cmp_done"
    /\ UNCHANGED <<tunnel, remote_routes, route_report>>
    /\ CmpFrame

NextCmp == CmpCompare \/ CmpApply \/ CmpRecompare

SpecCmp == InitCmp /\ [][NextCmp]_vars

(***************************************************************************)
(* Equality of route entries alone: TunnelRoute.__eq__ applied both ways   *)
(* to a pair of routes (local_routes[1], remote_routes[1]).                *)
(***************************************************************************)
EqOrigins ==
    {NoOrigin,
     OriginRequest("None", <<>>),
     OriginRequest("true", <<>>),
     OriginRequest("None", << <<"httpHostHeader", "x.internal">> >>),
     OriginRequest("None", << <<"httpHostHeader", "x.internal">>,
                              <<"connectTimeout", "30">> >>),
     OriginRequest("None", << <<"connectTimeout", "30">>,
                              <<"httpHostHeader", "x.internal">> >>),
     OriginRequest("None", << <<"connectTimeout", "x.internal">>,
                              <<"httpHostHeader", "30">> >>)}

EqRoutes ==
    {TunnelRoute(h, s, o) :
        h \in {HostA, HostB},
        s \in {"http://10.0.0.1:8080", "http://10.0.0.1:9090"},
        o \in EqOrigins}

InitEq ==
    /\ local_routes \in [1..1 -> EqRoutes]
    /\ remote_routes \in [1..1 -> EqRoutes]
    /\ pc = "eq"
    /\ eq_result = NoEq
    /\ config_file = [kind |-> "list", data |-> local_routes]
    /\ tunnel = [kind |-> "null_result", ingress |-> <<>>]
    /\ zone = {}
    /\ fault = "none"
    /\ dry_run = FALSE
    /\ manage_dns = FALSE
    /\ actions = NoActions
    /\ existing_records = {}
    /\ dns_create = <<>>
    /\ dns_update = <<>>
    /\ dns_delete = <<>>
    /\ dns_i = 1
    /\ calls = <<>>
    /\ route_report = NoReport
    /\ dns_report = NoReport
    /\ warnings = {}
    /\ exit_code = "running"
    /\ start = [tunnel |-> tunnel, zone |-> zone]
    /\ prev = NoPrev
    /\ env = EnvNames
    /\ NoScanner

\* a == b and b == a
EqCompare ==
    /\ pc = "eq"
    /\ eq_result' = [done |-> TRUE,
                     ab |-> TunnelRoute_eq(local_routes[1], remote_routes[1]),
                     ba |-> TunnelRoute_eq(remote_routes[1], local_routes[1])]
    /\ pc' = "eq_done"
    /\ UNCHANGED <<scan_vars, env, config_file, tunnel, zone, fault, dry_run,
                   manage_dns, local_routes, remote_routes, actions,
                   existing_records, dns_create, dns_update, dns_delete, dns_i,
                   calls, route_report, dns_report, warnings, exit_code, start,
                   prev>>

NextEq == EqCompare

SpecEq == InitEq /\ [][NextEq]_vars

(***************************************************************************)
(* Properties                                                              *)
(***************************************************************************)
\* the entry a route list holds for hostname h (the last one of that
\* hostname, should the list repeat it)
EntryOf(routes, h) ==
    LET at == {i \in DOMAIN routes : routes[i].hostname = h}
    IN routes[CHOOSE i \in at : \A j \in at : j <= i]

\* the entries of a list that carry hostname h
EntriesFor(list, h) == {i \in DOMAIN list : list[i].hostname = h}

\* two optional origin options hold the same values
SameOptions(x, y) ==
    /\ x.present = y.present
    /\ x.noTLSVerify = y.noTLSVerify
    /\ {x.extra[i] : i \in DOMAIN x.extra} = {y.extra[i] : i \in DOMAIN y.extra}

\* C1: idempotence of route reconciliation: once compare_routes(D, A) has
\* been computed and applied (the remote holds what sync pushes, read back
\* as A'), compare_routes(D, A') has empty create, update and delete lists.
C1_Idempotence ==
    pc = "cmp_done" =>
        /\ actions.create = <<>>
        /\ actions.update = <<>>
        /\ actions.delete = <<>>

\* C2: compare_routes(desired, actual) is the three-way partition keyed by
\* hostname: only in desired -> the desired entry in create; only in actual
\* -> the actual entry in delete; in both -> the desired entry in update iff
\* the entries differ in service or originRequest, else nothing; and no
\* other entry is in any list.
C2_ThreeWayPartition ==
    pc = "cmp_apply" =>
        LET D == local_routes
            A == remote_routes
            inD == {D[i].hostname : i \in DOMAIN D}
            inA == {A[i].hostname : i \in DOMAIN A}
            NoneFor(list, h) == EntriesFor(list, h) = {}
            OnlyEntry(list, h, e) ==
                /\ Cardinality(EntriesFor(list, h)) = 1
                /\ \A i \in EntriesFor(list, h) : list[i] = e
        IN /\ \A h \in inD \ inA :
                /\ OnlyEntry(actions.create, h, EntryOf(D, h))
                /\ NoneFor(actions.update, h)
                /\ NoneFor(actions.delete, h)
           /\ \A h \in inA \ inD :
                /\ OnlyEntry(actions.delete, h, EntryOf(A, h))
                /\ NoneFor(actions.create, h)
                /\ NoneFor(actions.update, h)
           /\ \A h \in inD \cap inA :
                /\ NoneFor(actions.create, h)
                /\ NoneFor(actions.delete, h)
                /\ IF \/ EntryOf(D, h).service # EntryOf(A, h).service
                      \/ ~SameOptions(EntryOf(D, h).originRequest,
                                      EntryOf(A, h).originRequest)
                   THEN OnlyEntry(actions.update, h, EntryOf(D, h))
                   ELSE NoneFor(actions.update, h)
           /\ \A list \in {actions.create, actions.update, actions.delete} :
                \A i \in DOMAIN list : list[i].hostname \in inD \cup inA

\* C2 witness: one comparison with a hostname of each kind: created,
\* updated for its origin options alone, deleted
C2_Witness ==
    /\ pc = "cmp_apply"
    /\ Len(actions.create) = 1
    /\ Len(actions.delete) = 1
    /\ Len(actions.update) = 1
    /\ \E i \in DOMAIN remote_routes :
          /\ remote_routes[i].hostname = actions.update[1].hostname
          /\ remote_routes[i].service = actions.update[1].service

\* the events of the run with operation op
EventsOf(op) == {i \in DOMAIN calls : calls[i].op = op}

\* C3: when the fetch of the remote tunnel configuration answers not-found
\* (HTTP 404), get_cloudflare_routes returns the empty list instead of
\* raising, and the run goes on to put every desired route in the create
\* list.
C3_NotFoundIsEmpty ==
    (/\ EventsOf("get_tunnel") # {}
     /\ TunnelGetStatus(start.tunnel, fault) = 404)
        => /\ pc # "exit" \/ route_report.done
           /\ route_report.done =>
                 /\ route_report.create =
                        {EntryOf(local_routes, h) : h \in Hostnames(local_routes)}
                 /\ route_report.update = {}
                 /\ route_report.delete = {}

\* a DNS record this reconciler does not manage: not a CNAME, or a target
\* that does not end with the reserved tunnel suffix
Unmanaged(r) ==
    \/ r.type # "CNAME"
    \/ Len(r.content) < 3
    \/ r.content[Len(r.content)] # "com"
    \/ r.content[Len(r.content) - 1] # "cfargotunnel"

\* C4: the DNS reconciliation of sync_dns_records, over the managed actual
\* records keyed by name: a desired hostname with no managed record is in
\* the create list; a managed record whose name is no desired hostname is in
\* the delete list; a name in both is in the update list iff the record's
\* target differs from the canonical tunnel target, and in no list
\* otherwise.
C4_DnsPartition ==
    dns_report.done =>
        LET desired == {local_routes[i].hostname : i \in DOMAIN local_routes}
            managed == {r.name : r \in existing_records}
            Once(list, h) == Cardinality({i \in DOMAIN list : list[i] = h}) = 1
            Never(list, h) == \A i \in DOMAIN list : list[i] # h
        IN /\ \A h \in desired \ managed :
                Once(dns_create, h) /\ Never(dns_update, h) /\ Never(dns_delete, h)
           /\ \A h \in managed \ desired :
                Once(dns_delete, h) /\ Never(dns_create, h) /\ Never(dns_update, h)
           /\ \A h \in desired \cap managed :
                /\ Never(dns_create, h)
                /\ Never(dns_delete, h)
                /\ IF \E r \in existing_records :
                         r.name = h /\ r.content # <<TunnelId, "cfargotunnel", "com">>
                   THEN Once(dns_update, h)
                   ELSE Never(dns_update, h)
           /\ \A list \in {dns_create, dns_update, dns_delete} :
                \A i \in DOMAIN list : list[i] \in desired \cup managed

\* C4 witness: one DNS plan with a hostname to create, one to update and
\* one to delete
C4_Witness ==
    /\ dns_report.done
    /\ Len(dns_create) = 1
    /\ Len(dns_update) = 1
    /\ Len(dns_delete) = 1

\* C5: DNS records that are not CNAME, or whose target does not end with
\* the reserved tunnel suffix, are ignored: no update or delete call carries
\* the id of such a record, and the DNS action lists are those computed from
\* the zone without these records.
C5_UnmanagedIgnored ==
    /\ \A i \in EventsOf("update_dns") \cup EventsOf("delete_dns") :
          \E r \in start.zone : r.id = calls[i].id /\ ~Unmanaged(r)
    /\ dns_report.done =>
          \E plan \in DnsPlans(local_routes,
                               get_existing_dns_records(
                                   {r \in start.zone : ~Unmanaged(r)}, fault).records) :
             dns_report = Report(plan)

\* C5 witness: a run that updated or deleted a record of a zone that also
\* holds an unmanaged record
C5_Witness ==
    /\ pc = "exit"
    /\ EventsOf("update_dns") \cup EventsOf("delete_dns") # {}
    /\ \E r \in start.zone : Unmanaged(r)

\* C6: if the fetch of the actual DNS records fails, whatever the kind of
\* failure, the run does not crash: the managed-actual set is taken as
\* empty, a warning is reported, and the DNS phase creates a record for
\* every desired hostname and updates or deletes none.
C6_DnsFetchFailureDegrades ==
    (/\ EventsOf("list_dns") # {}
     /\ fault \in {"dns_fetch_http", "dns_fetch_conn"})
        => /\ dns_report.done
           /\ "dns_fetch_failed" \in warnings
           /\ existing_records = {}
           /\ dns_report.create = Hostnames(local_routes)
           /\ dns_report.update = {}
           /\ dns_report.delete = {}
           /\ EventsOf("update_dns") \cup EventsOf("delete_dns") = {}

\* C7: in a dry-run no mutating remote call is made (no tunnel
\* configuration update, no DNS create, update or delete): only the read
\* calls occur, and the remote state stays what it was.
C7_DryRunMutatesNothing ==
    dry_run =>
        /\ \A i \in DOMAIN calls :
              calls[i].op \in {"get_tunnel", "list_dns", "report_routes", "report_dns"}
        /\ tunnel = start.tunnel
        /\ zone = start.zone

\* C7 witness: a finished dry-run that planned route changes and DNS changes
C7_Witness ==
    /\ dry_run
    /\ pc = "exit"
    /\ route_report.done
    /\ route_report.create \cup route_report.update \cup route_report.delete # {}
    /\ dns_report.done
    /\ dns_report.create \cup dns_report.update \cup dns_report.delete # {}

\* C8: a dry-run and a real run started on the same desired state and the
\* same remote state compute and report the same route action set and the
\* same DNS action set.
C8_DryRunAgreesWithRealRun ==
    (/\ pc = "exit"
     /\ prev.valid
     /\ prev.dry_run
     /\ ~dry_run
     /\ prev.manage_dns = manage_dns
     /\ prev.start = start)
        => /\ route_report = prev.route_report
           /\ dns_report = prev.dns_report

\* C9: in a real run the tunnel configuration is updated iff the route
\* action set is non-empty, and the one document pushed holds every desired
\* route in desired order (not only the changed ones), followed by exactly
\* one catch-all rule without hostname, as its last rule.
C9_WholeDocumentPushed ==
    (~dry_run /\ route_report.done /\ pc # "apply_routes") =>
        /\ Cardinality(EventsOf("put_tunnel")) =
               IF route_report.create \cup route_report.update
                      \cup route_report.delete # {}
               THEN 1 ELSE 0
        /\ \A e \in EventsOf("put_tunnel") :
              LET doc == calls[e].doc
              IN /\ Len(doc) = Len(local_routes) + 1
                 /\ \A i \in DOMAIN local_routes :
                       /\ doc[i].hasHostname
                       /\ doc[i].hostname = local_routes[i].hostname
                       /\ doc[i].service = local_routes[i].service
                       /\ doc[i].hasOrigin = local_routes[i].originRequest.present
                 /\ ~doc[Len(doc)].hasHostname
                 /\ doc[Len(doc)].service = "http_status:404"

\* C9 witness: a real run pushed a document of two desired routes of which
\* only one was to be created or updated
C9_Witness ==
    /\ ~dry_run
    /\ route_report.done
    /\ pc # "apply_routes"
    /\ \E e \in EventsOf("put_tunnel") : Len(calls[e].doc) = 3
    /\ Cardinality(route_report.create \cup route_report.update) = 1
    /\ Cardinality(Hostnames(local_routes)) = 2

\* C10: when the route apply call is rejected by the remote system, the
\* route phase is aborted but the DNS phase is still attempted in the same
\* run, and the process exits non-zero only after every independent phase
\* has been attempted.
C10_DnsAttemptedAfterRouteRejection ==
    (/\ pc = "exit"
     /\ manage_dns
     /\ fault = "route_apply"
     /\ EventsOf("put_tunnel") # {})
        => /\ exit_code = "1"
           /\ EventsOf("list_dns") # {}

\* the DNS mutating calls of the run, in the order issued
DnsMutatingOps == {"create_dns", "update_dns", "delete_dns"}
DnsCalls == SelectSeq(calls, LAMBDA e : e.op \in DnsMutatingOps)

\* the call at position i of the run was accepted by the remote
Accepted(i) == i = Len(calls) \/ calls[i + 1].op # "rejected"

\* C11: in every run with DNS management enabled in which the load and the
\* route fetch succeed and the route action set is empty, the DNS records
\* are still fetched and reconciled, and the DNS actions are still reported
\* and (unless dry-run) applied.
C11_DnsSyncedWhenRoutesInSync ==
    (/\ pc = "exit"
     /\ manage_dns
     /\ route_report.done
     /\ route_report.create \cup route_report.update \cup route_report.delete = {})
        => /\ EventsOf("list_dns") # {}
           /\ dns_report.done
           /\ ~dry_run =>
                 \/ Len(DnsCalls) = Len(dns_create) + Len(dns_update) + Len(dns_delete)
                 \/ calls[Len(calls)].op = "rejected"

\* C12: in the DNS apply phase the mutating calls are issued one record at
\* a time, all creates before all updates before all deletes; the first
\* call that fails ends the phase with a non-zero exit, no later DNS call
\* of that run is issued, and the calls already applied are not undone.
C12_DnsApplyOrderAndAbort ==
    /\ Len(DnsCalls) <= Len(dns_create) + Len(dns_update) + Len(dns_delete)
    /\ \A k \in DOMAIN DnsCalls :
          IF k <= Len(dns_create)
          THEN /\ DnsCalls[k].op = "create_dns"
               /\ DnsCalls[k].rec.name = dns_create[k]
          ELSE IF k <= Len(dns_create) + Len(dns_update)
          THEN /\ DnsCalls[k].op = "update_dns"
               /\ DnsCalls[k].rec.name = dns_update[k - Len(dns_create)]
          ELSE /\ DnsCalls[k].op = "delete_dns"
               /\ \E r \in existing_records :
                     /\ r.id = DnsCalls[k].id
                     /\ r.name = dns_delete[k - Len(dns_create) - Len(dns_update)]
    /\ \A i \in DOMAIN calls :
          (calls[i].op = "rejected" /\ calls[i - 1].op \in DnsMutatingOps)
              => /\ i = Len(calls)
                 /\ pc = "exit"
                 /\ exit_code = "1"
    /\ \A i \in DOMAIN calls :
          Accepted(i) =>
              /\ calls[i].op = "create_dns" =>
                    \E r \in zone : /\ r.name = calls[i].rec.name
                                    /\ r.type = "CNAME"
                                    /\ r.content = calls[i].rec.content
              /\ calls[i].op = "update_dns" =>
                    \E r \in zone : /\ r.id = calls[i].id
                                    /\ r.content = calls[i].rec.content
              /\ calls[i].op = "delete_dns" =>
                    \A r \in zone : r.id # calls[i].id

\* C12 witness: a run whose DNS phase was ended by a rejected update or
\* delete call after a create call had been applied
C12_Witness ==
    /\ pc = "exit"
    /\ exit_code = "1"
    /\ Len(DnsCalls) >= 2
    /\ DnsCalls[1].op = "create_dns"
    /\ DnsCalls[Len(DnsCalls)].op \in {"update_dns", "delete_dns"}
    /\ calls[Len(calls)].op = "rejected"
    /\ Len(DnsCalls) < Len(dns_create) + Len(dns_update) + Len(dns_delete)

\* C13: a failure while loading the desired state, or a failure other than
\* not-found while fetching the actual routes, stops the run at once with a
\* non-zero exit: no mutating remote call is made in that run, and after a
\* load failure no remote call at all.
C13_FatalLoadOrFetchFailure ==
    /\ (config_file.kind # "list" /\ pc \notin {"idle", "load"})
           => /\ pc = "exit"
              /\ exit_code = "1"
              /\ calls = <<>>
              /\ tunnel = start.tunnel /\ zone = start.zone
    /\ (fault = "routes_5xx" /\ calls # <<>>)
           => /\ pc = "exit"
              /\ exit_code = "1"
              /\ \A i \in DOMAIN calls : calls[i].op = "get_tunnel"
              /\ Len(calls) = 1
              /\ tunnel = start.tunnel /\ zone = start.zone

\* C13 witness: a run of a non-empty desired state against a remote that
\* holds none of it, ended by the failed fetch of the actual routes
C13_Witness ==
    /\ pc = "exit"
    /\ fault = "routes_5xx"
    /\ calls # <<>>
    /\ local_routes # <<>>
    /\ tunnel.kind # "config"
    /\ ~dry_run

\* C14: loading the desired routes rejects a source in which two entries
\* have the same hostname: the load fails with a configuration error and no
\* reconciliation or remote call follows.
C14_DuplicateHostnamesRejected ==
    (/\ config_file.kind = "list"
     /\ \E i, j \in DOMAIN config_file.data :
           i # j /\ config_file.data[i].hostname = config_file.data[j].hostname
     /\ pc \notin {"idle", "load"})
        => /\ pc = "exit"
           /\ exit_code = "1"
           /\ calls = <<>>
           /\ ~route_report.done

\* the events of the run that report computed actions
ReportOps == {"report_routes", "report_dns"}

\* the hostnames of a sequence of routes, as a set
HostSet(list) == {list[i].hostname : i \in DOMAIN list}

\* C15 (as stated): every computed action, route or DNS, is reported
\* before the first mutating remote call of the run.
C15_AllReportedBeforeFirstMutation ==
    \A i, j \in DOMAIN calls :
        (calls[i].op \in MutatingOps /\ calls[j].op \in ReportOps) => j < i

\* C15 (amended): the computed route actions are reported before the
\* tunnel-configuration update, and the computed DNS actions are reported
\* before the first DNS mutating call; each report lists exactly the
\* computed actions, and no report follows a mutating call of its phase.
C15_ReportedBeforePhaseMutates ==
    /\ \A i \in DOMAIN calls :
          calls[i].op = "put_tunnel" =>
              /\ \E j \in 1..(i - 1) : calls[j].op = "report_routes"
              /\ \A j \in DOMAIN calls : calls[j].op = "report_routes" => j < i
              /\ route_report.done
              /\ route_report.create = Range(actions.create)
              /\ route_report.update = Range(actions.update)
              /\ route_report.delete = Range(actions.delete)
    /\ \A i \in DOMAIN calls :
          calls[i].op \in DnsMutatingOps =>
              /\ \E j \in 1..(i - 1) : calls[j].op = "report_dns"
              /\ \A j \in DOMAIN calls : calls[j].op = "report_dns" => j < i
              /\ dns_report.done
              /\ dns_report.create = Range(dns_create)
              /\ dns_report.update = Range(dns_update)
              /\ dns_report.delete = Range(dns_delete)

\* C15 witness: a real run that updated the tunnel configuration, then
\* reported its DNS actions, then issued a DNS mutating call
C15_Witness ==
    \E i, j, k \in DOMAIN calls :
        /\ i < j /\ j < k
        /\ calls[i].op = "put_tunnel"
        /\ calls[j].op = "report_dns"
        /\ calls[k].op \in DnsMutatingOps

\* C16: in every run the route phase (compare, report, apply) is finished
\* before the DNS phase starts, and the tunnel-configuration update is
\* issued at most once.
C16_RoutesBeforeDns ==
    /\ Cardinality(EventsOf("put_tunnel")) <= 1
    /\ \A i, j \in DOMAIN calls :
          (/\ calls[i].op \in {"get_tunnel", "report_routes", "put_tunnel"}
           /\ calls[j].op \in {"list_dns", "report_dns"} \cup DnsMutatingOps)
              => i < j
    /\ (\E j \in DOMAIN calls :
           calls[j].op \in {"list_dns", "report_dns"} \cup DnsMutatingOps)
          => /\ route_report.done
             /\ (~dry_run /\ has_changes(actions))
                    => \E i \in DOMAIN calls : calls[i].op = "put_tunnel" /\ Accepted(i)

\* C16 witness: a run that updated the tunnel configuration and then
\* changed a DNS record
C16_Witness ==
    /\ pc = "exit"
    /\ exit_code = "0"
    /\ Cardinality(EventsOf("put_tunnel")) = 1
    /\ DnsCalls # <<>>

\* the position of hostname h in a list of routes (its last entry)
PosIn(list, h) == CHOOSE i \in DOMAIN list :
                     /\ list[i].hostname = h
                     /\ \A j \in DOMAIN list : list[j].hostname = h => j <= i

\* the entries of acts appear in the order their hostnames have in list
InOrderOf(acts, list) ==
    \A i, j \in DOMAIN acts :
        i < j => PosIn(list, acts[i].hostname) < PosIn(list, acts[j].hostname)

\* C17: the order of the create, update and delete sequences returned by
\* the route comparison is a function of its inputs: create and update
\* follow the order of the desired list, delete follows the order of the
\* actual list.
C17_DeterministicOrder ==
    /\ pc = "cmp" =>
          Cardinality(compare_routes(local_routes, remote_routes)) = 1
    /\ pc = "cmp_apply" =>
          /\ InOrderOf(actions.create, local_routes)
          /\ InOrderOf(actions.update, local_routes)
          /\ InOrderOf(actions.delete, remote_routes)

\* C18: every DNS record sent in a create or update call is of type CNAME,
\* named as a desired hostname, targets <tunnel id>.cfargotunnel.com, is
\* proxied and has TTL 1.
C18_CanonicalRecordSent ==
    \A i \in DOMAIN calls :
        calls[i].op \in {"create_dns", "update_dns"} =>
            /\ calls[i].rec.type = "CNAME"
            /\ calls[i].rec.name \in HostSet(local_routes)
            /\ calls[i].rec.content = <<TunnelId, "cfargotunnel", "com">>
            /\ calls[i].rec.proxied = TRUE
            /\ calls[i].rec.ttl = 1

\* C18 witness: an update sent for a record that was unproxied, with
\* another TTL and another tunnel's target
C18_Witness ==
    \E i \in DOMAIN calls :
        /\ calls[i].op = "update_dns"
        /\ \E r \in existing_records :
              /\ r.id = calls[i].id
              /\ ~r.proxied
              /\ r.ttl # 1
              /\ r.content # calls[i].rec.content

\* C19: when the desired and the actual routes share no hostname, the
\* update set is empty, there is exactly one create per desired hostname
\* and exactly one delete per actual hostname.
C19_DisjointHostnames ==
    (pc = "cmp_apply" /\ HostSet(local_routes) \cap HostSet(remote_routes) = {})
        => /\ actions.update = <<>>
           /\ HostSet(actions.create) = HostSet(local_routes)
           /\ Len(actions.create) = Cardinality(HostSet(local_routes))
           /\ HostSet(actions.delete) = HostSet(remote_routes)
           /\ Len(actions.delete) = Cardinality(HostSet(remote_routes))

\* C19 witness: a comparison of two non-empty route lists without a common
\* hostname
C19_Witness ==
    /\ pc = "cmp_apply"
    /\ local_routes # <<>>
    /\ remote_routes # <<>>
    /\ HostSet(local_routes) \cap HostSet(remote_routes) = {}

\* C20: route equality is symmetric, and two routes are equal exactly when
\* hostname, service and origin options are equal by value, whatever the
\* key order of the options.
C20_EqualitySymmetricByValue ==
    pc = "eq_done" =>
        /\ eq_result.ab = eq_result.ba
        /\ eq_result.ab <=>
              /\ local_routes[1].hostname = remote_routes[1].hostname
              /\ local_routes[1].service = remote_routes[1].service
              /\ SameOptions(local_routes[1].originRequest,
                             remote_routes[1].originRequest)

\* C20 witness: two routes found equal whose options were given in
\* different key orders
C20_Witness ==
    /\ pc = "eq_done"
    /\ eq_result.ab
    /\ eq_result.ba
    /\ Len(local_routes[1].originRequest.extra) = 2
    /\ local_routes[1].originRequest.extra # remote_routes[1].originRequest.extra

(***************************************************************************)
(* The environment check of main(): runs of main() under every subset of   *)
(* the identifiers, on short inputs.                                       *)
(***************************************************************************)
InitEnv ==
    /\ env \in SUBSET EnvNames
    /\ config_file \in {c \in ConfigFiles : Len(c.data) <= 1}
    /\ tunnel \in Tunnels
    /\ zone \in {z \in Zones : Cardinality(z) <= 1}
    /\ fault \in Faults
    /\ dry_run = FALSE
    /\ manage_dns = TRUE
    /\ pc = "idle"
    /\ local_routes = <<>>
    /\ remote_routes = <<>>
    /\ actions = NoActions
    /\ existing_records = {}
    /\ dns_create = <<>>
    /\ dns_update = <<>>
    /\ dns_delete = <<>>
    /\ dns_i = 1
    /\ calls = <<>>
    /\ route_report = NoReport
    /\ dns_report = NoReport
    /\ warnings = {}
    /\ exit_code = "running"
    /\ start = [tunnel |-> tunnel, zone |-> zone]
    /\ prev = NoPrev
    /\ eq_result = NoEq
    /\ NoScanner

SpecEnv == InitEnv /\ [][Next]_vars

\* the identifiers the run needs: the three of the tunnel, and the zone
\* identifier when DNS management is enabled
RequiredIds ==
    {"CLOUDFLARE_API_TOKEN", "CLOUDFLARE_ACCOUNT_ID", "CLOUDFLARE_TUNNEL_ID"}
    \cup (IF manage_dns THEN {"CLOUDFLARE_ZONE_ID"} ELSE {})

\* C21: when a required identifier is missing from the environment (token,
\* account or tunnel identifier, and the zone identifier when DNS
\* management is enabled), the process exits non-zero before the sync is
\* invoked: no file is loaded and no remote call is made.
C21_MissingIdentifierExitsEarly ==
    (pc # "idle" /\ ~(RequiredIds \subseteq env))
        => /\ pc = "exit"
           /\ exit_code = "1"
           /\ calls = <<>>
           /\ local_routes = <<>>
           /\ ~route_report.done /\ ~dns_report.done
           /\ tunnel = start.tunnel /\ zone = start.zone

\* C21 witness: main() has exited for want of the zone identifier alone,
\* with a loadable file and work to do
C21_Witness ==
    /\ pc = "exit"
    /\ env = EnvNames \ {"CLOUDFLARE_ZONE_ID"}
    /\ manage_dns
    /\ config_file.kind = "list"
    /\ config_file.data # <<>>
    /\ tunnel.kind = "null_result"

\* the route-phase calls and reports of the run, in the order issued
RouteOps == {"get_tunnel", "report_routes", "put_tunnel"}
RouteCalls == SelectSeq(calls, LAMBDA e : e.op \in RouteOps)

\* what the route phase of a run does, as a function of the local file cfg,
\* the remote tunnel configuration t, the remote's fault f and the dry-run
\* flag: its calls, the reports it may print, and the remote tunnel
\* configuration it leaves
ExpectedRoutePhase(cfg, t, f, dry) ==
    LET get == Event("get_tunnel", "", NoRecord, <<>>)
        rep == Event("report_routes", "", NoRecord, <<>>)
        got == get_cloudflare_routes(TunnelGetStatus(t, f), t)
        as == compare_routes(cfg.data, got.routes)
        doc == build_cloudflare_config(cfg.data)
    IN IF cfg.kind # "list"
       THEN [calls |-> <<>>, reports |-> {NoReport}, tunnel |-> t]
       ELSE IF got.raised
       THEN [calls |-> <<get>>, reports |-> {NoReport}, tunnel |-> t]
       ELSE IF (\E a \in as : has_changes(a)) /\ ~dry
       THEN [calls |-> <<get, rep, Event("put_tunnel", "", NoRecord, doc)>>,
             reports |-> {Report(a) : a \in as},
             tunnel |-> IF f = "route_apply" THEN t
                        ELSE [kind |-> "config", ingress |-> doc]]
       ELSE [calls |-> <<get, rep>>, reports |-> {Report(a) : a \in as},
             tunnel |-> t]

\* C26: when DNS management is disabled, a run makes no DNS call of any
\* kind (list, create, update, delete) and reports no DNS action, while the
\* route phase is the same as with DNS management enabled: its calls, its
\* report and its effect on the remote depend only on the local file, the
\* remote tunnel configuration and the dry-run flag.
C26_NoDnsWhenDisabled ==
    /\ ~manage_dns =>
          /\ \A i \in DOMAIN calls :
                calls[i].op \notin {"list_dns", "report_dns"} \cup DnsMutatingOps
          /\ ~dns_report.done
          /\ zone = start.zone
    /\ pc \in {"sync_dns", "dns_apply", "exit"} =>
          LET exp == ExpectedRoutePhase(config_file, start.tunnel, fault, dry_run)
          IN /\ RouteCalls = exp.calls
             /\ route_report \in exp.reports
             /\ tunnel = exp.tunnel

\* C26 witness: a real run without DNS management that updated the tunnel
\* configuration and ended with a desired hostname that has no DNS record
C26_Witness ==
    /\ pc = "exit"
    /\ exit_code = "0"
    /\ ~manage_dns
    /\ ~dry_run
    /\ \E i \in DOMAIN calls : calls[i].op = "put_tunnel"
    /\ \E i \in DOMAIN local_routes :
          \A r \in zone : r.name # local_routes[i].hostname

\* the hostname rules a remote tunnel configuration holds, as routes
HostRules(t) == IF t.kind = "config" THEN ParseIngress(t.ingress) ELSE <<>>

\* two route lists are equal entry by entry
SameRoutes(x, y) ==
    /\ Len(x) = Len(y)
    /\ \A i \in DOMAIN x :
          /\ x[i].hostname = y[i].hostname
          /\ x[i].service = y[i].service
          /\ SameOptions(x[i].originRequest, y[i].originRequest)

\* C22: after a real run with DNS management enabled in which every remote
\* call succeeds, the hostname rules held by the remote equal the desired
\* routes and the managed DNS records are exactly one record per desired
\* hostname pointing at the canonical target; a second run started on that
\* state makes no mutating remote call.
C22_Convergence ==
    (/\ prev.valid
     /\ ~prev.dry_run
     /\ prev.manage_dns
     /\ prev.exit_code = "0"
     /\ fault = "none")
        => /\ SameRoutes(HostRules(start.tunnel), config_file.data)
           /\ LET managed == {r \in start.zone :
                                 /\ r.type = "CNAME"
                                 /\ Len(r.content) >= 2
                                 /\ SubSeq(r.content, Len(r.content) - 1, Len(r.content))
                                       = <<"cfargotunnel", "com">>}
              IN /\ {r.name : r \in managed} = HostSet(config_file.data)
                 /\ \A r1, r2 \in managed : r1.name = r2.name => r1 = r2
                 /\ \A r \in managed : r.content = <<TunnelId, "cfargotunnel", "com">>
           /\ \A i \in DOMAIN calls : calls[i].op \notin MutatingOps

\* C23: for every list of routes, reading back the document built by
\* build_cloudflare_config (the rules without hostname dropped) yields a
\* list of routes equal, entry by entry, to the original, also for origin
\* options that are absent, empty or hold a null-valued option.
C23_DocumentRoundTrip ==
    (pc = "cmp_again" /\ tunnel.kind = "config")
        => /\ tunnel.ingress = build_cloudflare_config(local_routes)
           /\ remote_routes = ParseIngress(tunnel.ingress)
           /\ SameRoutes(remote_routes, local_routes)

(***************************************************************************)
(* The port scanner (portwatcher/scanner/tasks.py): one call of            *)
(* PortScanner.scan_host on a host, by the steps of its try statement.     *)
(***************************************************************************)
\* self.nm[ip][proto][port]: a port nmap reports, with the keys of its
\* port_info ("state" may be missing)
PortInfo(port, proto, hasState, state, name, product, version) ==
    [port |-> port, proto |-> proto, hasState |-> hasState, state |-> state,
     name |-> name, product |-> product, version |-> version]

PortInfos ==
    {PortInfo(22, "tcp", TRUE, "open", "ssh", "OpenSSH", "9.0"),
     PortInfo(80, "tcp", FALSE, "", "http", "nginx", "")}

\* PortScan.objects.create(...) in _parse_scan_results; service_version is
\* product + (" " + version).strip(): the two texts side by side, the
\* blank stripped away
PortScan(info) ==
    [port |-> info.port, protocol |-> info.proto,
     state |-> IF info.hasState THEN info.state ELSE "unknown",
     service_name |-> info.name,
     service_version |-> <<info.product, info.version>>]

\* what nmap does: the scan raises (error, timeout), the host is absent
\* from all_hosts(), or it is present with ports; fail_at = k > 0 makes the
\* creation of the k-th PortScan row raise
NmapRuns ==
    {[kind |-> k, ports |-> <<>>, fail_at |-> 0] : k \in {"raises", "absent"}}
    \cup UNION {{[kind |-> "present", ports |-> p, fail_at |-> k] :
                    k \in 0..Len(p)} :
                p \in DistinctSeqsUpTo(PortInfos, MaxPorts)}

\* the database call that raises in this scan, if any
ScanFaults == {"none", "create", "host_save", "result_save", "final_host_save"}

\* the hosts scan_host may be given: never scanned, or scanned before
Hosts ==
    {Host("pending", NoTime)}
    \cup {Host(st, Time(0)) : st \in {"scanning", "success", "failed"}}

InitScan ==
    /\ host \in Hosts
    /\ scan_result = NoScanResult
    /\ db = [host |-> host, scan |-> NoScanResult, ports |-> <<>>]
    /\ nm \in NmapRuns
    /\ fault \in ScanFaults
    /\ clock = 1
    /\ pc = "scan_start"
    /\ env = EnvNames
    /\ eq_result = NoEq
    /\ config_file = [kind |-> "list", data |-> <<>>]
    /\ tunnel = [kind |-> "null_result", ingress |-> <<>>]
    /\ zone = {}
    /\ dry_run = FALSE
    /\ manage_dns = FALSE
    /\ local_routes = <<>>
    /\ remote_routes = <<>>
    /\ actions = NoActions
    /\ existing_records = {}
    /\ dns_create = <<>>
    /\ dns_update = <<>>
    /\ dns_delete = <<>>
    /\ dns_i = 1
    /\ calls = <<>>
    /\ route_report = NoReport
    /\ dns_report = NoReport
    /\ warnings = {}
    /\ exit_code = "running"
    /\ start = [tunnel |-> tunnel, zone |-> zone]
    /\ prev = NoPrev

ScanFrame ==
    UNCHANGED <<nm, fault, env, eq_result, config_file, tunnel, zone, dry_run,
                manage_dns, local_routes, remote_routes, actions,
                existing_records, dns_create, dns_update, dns_delete, dns_i,
                calls, route_report, dns_report, warnings, exit_code, start,
                prev>>

\* line 18: ScanResult.objects.create(host=host, status="running"), outside
\* the try statement: an exception leaves scan_host
ScanCreate ==
    /\ pc = "scan_start"
    /\ IF fault = "create"
       THEN /\ pc' = "scan_raised"
            /\ UNCHANGED <<scan_result, db>>
       ELSE /\ scan_result' = ScanResult("running", Time(clock), NoTime, "", NoTime)
            /\ db' = [db EXCEPT !.scan = scan_result']
            /\ pc' = "scan_mark"
    /\ clock' = clock + 1
    /\ UNCHANGED host
    /\ ScanFrame

\* lines 21-22: host.last_scan_status = "scanning"; host.save()
ScanMarkScanning ==
    /\ pc = "scan_mark"
    /\ host' = [host EXCEPT !.last_scan_status = "scanning"]
    /\ IF fault = "host_save"
       THEN /\ pc' = "scan_except"
            /\ UNCHANGED db
       ELSE /\ db' = [db EXCEPT !.host = host']
            /\ pc' = "scan_nmap"
    /\ UNCHANGED <<scan_result, clock>>
    /\ ScanFrame

\* lines 24-28: self.nm.scan(...)
ScanNmap ==
    /\ pc = "scan_nmap"
    /\ pc' = IF nm.kind = "raises" THEN "scan_except" ELSE "scan_results"
    /\ clock' = clock + 1
    /\ UNCHANGED <<host, scan_result, db>>
    /\ ScanFrame

\* lines 30-35: the host is in all_hosts(): _parse_scan_results, then status
\* "success"; else status "failed". The rows created before a failing
\* create stay in the database.
ScanResults ==
    /\ pc = "scan_results"
    /\ IF nm.kind = "present"
       THEN LET n == IF nm.fail_at > 0 THEN nm.fail_at - 1 ELSE Len(nm.ports)
            IN /\ db' = [db EXCEPT !.ports = [i \in 1..n |-> PortScan(nm.ports[i])]]
               /\ IF nm.fail_at > 0
                  THEN /\ pc' = "scan_except"
                       /\ UNCHANGED scan_result
                  ELSE /\ scan_result' = [scan_result EXCEPT !.status = "success"]
                       /\ pc' = "scan_else"
       ELSE /\ scan_result' = [scan_result EXCEPT
                                  !.status = "failed",
                                  !.error_message = "Host not found in scan results"]
            /\ pc' = "scan_else"
            /\ UNCHANGED db
    /\ UNCHANGED <<host, clock>>
    /\ ScanFrame

\* a handler that leaves the host as it is
HostAfterExcept_Unchanged(h) == h

\* line 40: host.last_scan_status = "failed"
HostAfterExcept(h) == [h EXCEPT !.last_scan_status = "failed"]

\* lines 37-40: except Exception as e
ScanExcept ==
    /\ pc = "scan_except"
    /\ scan_result' = [scan_result EXCEPT !.status = "failed",
                                          !.error_message = "str(e)"]
    /\ host' = HostAfterExcept(host)
    /\ pc' = "scan_finally"
    /\ UNCHANGED <<db, clock>>
    /\ ScanFrame

\* lines 41-42: else (the try body raised nothing)
ScanElse ==
    /\ pc = "scan_else"
    /\ host' = [host EXCEPT !.last_scan_status = "success"]
    /\ pc' = "scan_finally"
    /\ UNCHANGED <<scan_result, db, clock>>
    /\ ScanFrame

\* lines 43-53: finally: completed_at, duration_seconds, scan_result.save(),
\* last_scan_at, host.save(), and the return; an exception of a save leaves
\* scan_host
ScanFinally ==
    /\ pc = "scan_finally"
    /\ scan_result' =
          [scan_result EXCEPT
              !.completed_at = Time(clock),
              !.duration_seconds = Time(clock - scan_result.started_at.t)]
    /\ IF fault = "result_save"
       THEN /\ pc' = "scan_raised"
            /\ UNCHANGED <<host, db>>
       ELSE /\ host' = [host EXCEPT !.last_scan_at = Time(clock)]
            /\ IF fault = "final_host_save"
               THEN /\ db' = [db EXCEPT !.scan = scan_result']
                    /\ pc' = "scan_raised"
               ELSE /\ db' = [db EXCEPT !.scan = scan_result', !.host = host']
                    /\ pc' = "scan_returned"
    /\ clock' = clock + 1
    /\ ScanFrame

NextScan ==
    \/ ScanCreate
    \/ ScanMarkScanning
    \/ ScanNmap
    \/ ScanResults
    \/ ScanExcept
    \/ ScanElse
    \/ ScanFinally

SpecScan == InitScan /\ [][NextScan]_vars

\* C24: when scan_host returns, the host's last_scan_status agrees with the
\* status of the returned scan result: "success" iff the result is
\* "success" and "failed" iff the result is "failed", on every path.
C24_HostStatusAgreesWithResult ==
    pc = "scan_returned" =>
        /\ host.last_scan_status = "success" <=> scan_result.status = "success"
        /\ host.last_scan_status = "failed" <=> scan_result.status = "failed"

\* C25: scan_host creates the scan result as "running" and sets the host to
\* "scanning", and on every path on which it returns the scan result is
\* "success" or "failed" with completed_at set and the host is neither
\* "scanning" nor "pending" with last_scan_at set.
C25_NoTransientStateLeft ==
    /\ pc = "scan_mark" =>
          /\ scan_result.exists /\ scan_result.status = "running"
          /\ db.scan.exists /\ db.scan.status = "running"
    /\ pc = "scan_nmap" =>
          /\ host.last_scan_status = "scanning"
          /\ db.host.last_scan_status = "scanning"
    /\ pc = "scan_returned" =>
          /\ scan_result.status \in {"success", "failed"}
          /\ scan_result.completed_at.set
          /\ host.last_scan_status \notin {"scanning", "pending"}
          /\ host.last_scan_at.set
          /\ db.scan = scan_result
          /\ db.host = host

\* C25 witness: scan_host has returned from a scan in which nmap raised,
\* with the failure saved on both rows
C25_Witness ==
    /\ pc = "scan_returned"
    /\ nm.kind = "raises"
    /\ scan_result.status = "failed"
    /\ host.last_scan_status = "failed"
    /\ db.host.last_scan_at.set

====
